---- MODULE Spec2Model ----
(***************************************************************************)
(* Model of the locator validation tool check_locators_from_file           *)
(* (src/src/tools/locator-validation/check-locators.ts): the execute       *)
(* handler as a state machine whose steps are cut at its awaits, and       *)
(* findAlternateLocators as an operator computed as the code computes it.  *)
(*                                                                         *)
(* Texts that the code lower-cases and searches are sequences of           *)
(* characters; selectors and strategy names, which the code only compares  *)
(* with ===, are atoms.                                                    *)
(***************************************************************************)
EXTENDS Integers, Sequences, FiniteSets, TLC

\* Bounds of the model: entries in the locator file, elements on the screen.
MaxEntries == 2
MaxElements == 2

\* uniqueAlternates.slice(0, 5)
MaxAlternates == 5

----------------------------------------------------------------------------
\* JavaScript strings and values

ToLowerChar(c) == CASE c = "A" -> "a" [] c = "B" -> "b" [] OTHER -> c

\* String.prototype.toLowerCase
toLowerCase(s) == [k \in 1..Len(s) |-> ToLowerChar(s[k])]

\* String.prototype.includes
includes(haystack, needle) ==
    \E k \in 0..(Len(haystack) - Len(needle)) :
        SubSeq(haystack, k + 1, k + Len(needle)) = needle

\* A value read from the parsed JSON of the locator file: a string, a number
\* (non-zero) or undefined (the property is missing).
Str(s) == [t |-> "string", s |-> s]
Num == [t |-> "number", s |-> <<>>]
Undefined == [t |-> "undefined", s |-> <<>>]

Truthy(v) == IF v.t = "string" THEN v.s # <<>> ELSE v.t = "number"

\* a ?? b: only a missing value falls through, an empty string does not
JsOrNullish(a, b) == IF a.t # "undefined" THEN a ELSE b

\* a || b on JSON values
JsOr(a, b) == IF Truthy(a) THEN a ELSE b

\* a || b on strings
StrOr(a, b) == IF a # <<>> THEN a ELSE b

\* Error objects: err.toString() is "<name>: <message>"
Err(name, message) == [name |-> name, message |-> message]

\* err.message in place of err.toString()
ErrMessageOnly(err) == err.message

ErrToString(err) == <<err.name, ": ">> \o err.message

----------------------------------------------------------------------------
\* Inputs

\* Elements as generateAllElementLocators returns them (ElementWithLocators):
\* locators is the locator map in insertion order, as Object.entries lists it.
Loc(strategy, selector) == [strategy |-> strategy, selector |-> selector]

ElementPool ==
    { [tagName |-> "Button", text |-> <<"A", "b">>, contentDesc |-> <<>>,
       resourceId |-> <<>>,
       locators |-> <<Loc("id", "s1"), Loc("accessibility id", "s2"), Loc("xpath", "s3"),
                      Loc("class name", "s10"), Loc("-android uiautomator", "s11")>>],
      [tagName |-> "TextView", text |-> <<"b">>, contentDesc |-> <<"A", "b">>,
       resourceId |-> <<>>,
       locators |-> <<Loc("accessibility id", "s4"), Loc("xpath", "s5")>>],
      [tagName |-> "EditText", text |-> <<>>, contentDesc |-> <<>>,
       resourceId |-> <<"a", "B">>,
       locators |-> <<Loc("id", "s6"), Loc("xpath", "s7"), Loc("class name", "s8"),
                      Loc("-android uiautomator", "s12")>>],
      [tagName |-> "View", text |-> <<>>, contentDesc |-> <<>>,
       resourceId |-> <<>>,
       locators |-> <<Loc("xpath", "s9")>>] }

\* Items of the JSON array in the locator file.  kind "null" is a JSON null;
\* an object carries the properties the code reads.
Entry(strategy, locators, pageElementName, fieldName, remarks) ==
    [kind |-> "object", pageName |-> "Page", pageElementName |-> pageElementName,
     LocatorStrategy |-> strategy, Locators |-> locators,
     fieldName |-> fieldName, remarks |-> remarks]

NullItem ==
    [kind |-> "null", pageName |-> "", pageElementName |-> Undefined,
     LocatorStrategy |-> "", Locators |-> "",
     fieldName |-> Undefined, remarks |-> Undefined]

\* The value of a missing LocatorStrategy / Locators property
NoValue == "undefined"

ItemPool ==
    { Entry("id", "s1", Str(<<"b">>), Str(<<"a">>), Str(<<"b">>)),
      Entry("xpath", "s9", Str(<<"b">>), Str(<<>>), Str(<<"a", "B">>)),
      Entry("id", "s4", Str(<<"b">>), Str(<<>>), Str(<<>>)),
      Entry("accessibility id", "s2", Str(<<>>), Str(<<>>), Str(<<>>)),
      Entry("id", "s0", Str(<<"a">>), Num, Str(<<>>)),
      Entry(NoValue, NoValue, Str(<<"a">>), Undefined, Undefined),
      NullItem }

\* The shape the UserLocatorEntry interface declares
Conforms(item) ==
    /\ item.kind = "object"
    /\ item.LocatorStrategy # NoValue
    /\ item.Locators # NoValue
    /\ item.fieldName.t = "string"
    /\ item.remarks.t = "string"
    /\ item.pageElementName.t = "string"

SeqsUpTo(S, n) == UNION { [1..k -> S] : k \in 0..n }

----------------------------------------------------------------------------
\* findAlternateLocators (check-locators.ts 143-188)

RECURSIVE Flatten(_)
Flatten(ss) == IF ss = <<>> THEN <<>> ELSE Head(ss) \o Flatten(Tail(ss))

Min(a, b) == IF a <= b THEN a ELSE b

Alt(strategy, selector, tagName) ==
    [strategy |-> strategy, selector |-> selector, tagName |-> tagName]

\* const targetText = userLocator.fieldName || userLocator.remarks || userLocator.pageElementName
targetTextOf(userLocator) ==
    JsOr(JsOr(userLocator.fieldName, userLocator.remarks), userLocator.pageElementName)

\* const elementText = element.text || element.contentDesc || element.resourceId
elementTextOf(element) ==
    StrOr(StrOr(element.text, element.contentDesc), element.resourceId)

\* Object.entries(element.locators) pushed as {strategy, selector, tagName}
AllLocatorsOf(element) ==
    [k \in 1..Len(element.locators) |->
        Alt(element.locators[k].strategy, element.locators[k].selector, element.tagName)]

\* The condition without its targetText operand: an empty target text is
\* included in every element text
TextMatchesEmptyTarget(userLocator, element) ==
    /\ elementTextOf(element) # <<>>
    /\ includes(toLowerCase(elementTextOf(element)),
                toLowerCase(targetTextOf(userLocator).s))

\* The comparison without toLowerCase
TextMatchesCaseSensitive(userLocator, element) ==
    /\ elementTextOf(element) # <<>>
    /\ Truthy(targetTextOf(userLocator))
    /\ includes(elementTextOf(element), targetTextOf(userLocator).s)

\* The condition of the first if: both texts truthy and the lower-cased element
\* text includes the lower-cased target text.
TextMatches(userLocator, element) ==
    /\ elementTextOf(element) # <<>>
    /\ Truthy(targetTextOf(userLocator))
    /\ includes(toLowerCase(elementTextOf(element)),
                toLowerCase(targetTextOf(userLocator).s))

\* targetText.toLowerCase is not a function: the target text is truthy and no string
TextMatchThrows(userLocator, element) ==
    /\ elementTextOf(element) # <<>>
    /\ Truthy(targetTextOf(userLocator))
    /\ targetTextOf(userLocator).t # "string"

TextEmits(userLocator, element) ==
    IF TextMatches(userLocator, element) THEN AllLocatorsOf(element) ELSE <<>>

\* === in place of !==: only the user's own strategy is kept
OtherStrategiesOwnOnly(userLocator, element) ==
    SelectSeq(AllLocatorsOf(element),
              LAMBDA a : a.strategy = userLocator.LocatorStrategy)

\* The entries pushed for one exactly matching selector: every strategy but the
\* user's own.
OtherStrategies(userLocator, element) ==
    SelectSeq(AllLocatorsOf(element),
              LAMBDA a : a.strategy # userLocator.LocatorStrategy)

\* The selector compared with the entry's strategy name, not its Locators
ExactEmitsWrongField(userLocator, element) ==
    Flatten([k \in 1..Len(element.locators) |->
        IF element.locators[k].selector = userLocator.LocatorStrategy
        THEN OtherStrategies(userLocator, element)
        ELSE <<>>])

\* Object.values(element.locators).forEach(selector => if (selector === userLocator.Locators) ...)
ExactEmits(userLocator, element) ==
    Flatten([k \in 1..Len(element.locators) |->
        IF element.locators[k].selector = userLocator.Locators
        THEN OtherStrategies(userLocator, element)
        ELSE <<>>])

\* The body of the for loop for one element: text emissions, then exact ones
EmitsOf(userLocator, element) ==
    TextEmits(userLocator, element) \o ExactEmits(userLocator, element)

\* alternates after the loop over allCurrentPageElements
alternatesOf(userLocator, elements) ==
    Flatten([k \in 1..Len(elements) |-> EmitsOf(userLocator, elements[k])])

SamePair(a, b) == a.strategy = b.strategy /\ a.selector = b.selector

\* self.findIndex(t => t.strategy === item.strategy && t.selector === item.selector)
findIndex(self, item) ==
    CHOOSE k \in 1..Len(self) :
        /\ SamePair(self[k], item)
        /\ \A j \in 1..(k - 1) : ~SamePair(self[j], item)

RECURSIVE KeepFirst(_, _)
KeepFirst(self, k) ==
    IF k > Len(self) THEN <<>>
    ELSE (IF findIndex(self, self[k]) = k THEN <<self[k]>> ELSE <<>>)
         \o KeepFirst(self, k + 1)

\* alternates.filter((item, index, self) => index === self.findIndex(...))
uniqueAlternates(alternates) == KeepFirst(alternates, 1)

\* slice that keeps the whole list
sliceKeepsAll(s, n) == s

\* uniqueAlternates.slice(0, 5)
slice(s, n) == SubSeq(s, 1, Min(n, Len(s)))

\* The cap applied before the duplicates are removed
findAlternateLocatorsCapFirst(userLocator, elements) ==
    uniqueAlternates(slice(alternatesOf(userLocator, elements), MaxAlternates))

findAlternateLocators(userLocator, elements) ==
    slice(uniqueAlternates(alternatesOf(userLocator, elements)), MaxAlternates)

\* findAlternateLocators throws a TypeError instead of returning: the item is
\* null (userLocator.fieldName) or the target text has no toLowerCase.
findAlternateLocatorsThrows(userLocator, elements) ==
    \/ userLocator.kind = "null"
    \/ \E k \in 1..Len(elements) : TextMatchThrows(userLocator, elements[k])

----------------------------------------------------------------------------
\* The execute handler of check_locators_from_file (check-locators.ts 42-139)

VARIABLES
    driver,                  \* getDriver() returns a session
    file,                    \* the locator file on disk
    pc,                      \* where the handler stands
    userLocators,            \* the parsed array
    pageSource,              \* what getPageSource resolved with
    allCurrentPageElements,  \* the snapshot
    i,                       \* 1-based position of the for loop
    results,                 \* ValidationResult[] built so far
    calls,                   \* file-system and session operations issued, in order
    inflight,                \* entries whose findElement call has not settled
    answers,                 \* how the driver settled each findElement call, in order
    outcome                  \* what the call returned or threw

vars == <<driver, file, pc, userLocators, pageSource, allCurrentPageElements,
          i, results, calls, inflight, answers, outcome>>

Call(op, idx) == [op |-> op, idx |-> idx]

SessionOps == {"getPageSource", "automationName", "findElement"}

\* Messages of the errors the handler and its callees raise
NoSessionError == Err("Error", <<"No active driver session. Please create a session first.">>)
FileNotFoundError == Err("Error", <<"Locator file not found: ", "path">>)
JsonSyntaxError == Err("SyntaxError", <<"Unexpected token in JSON">>)
NotAnArrayError == Err("Error", <<"Locator file must contain an array of locator objects">>)
NullItemError == Err("TypeError", <<"Cannot read properties of null">>)
NotAFunctionError == Err("TypeError", <<"targetText.toLowerCase is not a function">>)
NoAutomationNameError == Err("TypeError", <<"Cannot read properties of undefined">>)
PageSourceError == Err("WebDriverError", <<"getPageSource failed">>)
ParseError == Err("Error", <<"page source cannot be parsed">>)

\* What findElement may reject with
DriverErrors ==
    { Err("NoSuchElementError", <<"no such element">>),
      Err("TimeoutError", <<"timed out">>) }

\* The caught error rethrown as it is
WrappedVerbatim(error) == error

\* catch (error) { throw new Error(`Failed to check locators: ${error.message}`) }
Wrapped(error) == Err("Error", <<"Failed to check locators: ">> \o error.message)

Thrown(error) == [type |-> "error", error |-> error]

\* The locator files: missing, not JSON, JSON but no array, or an array of items
Files ==
    { [exists |-> FALSE, json |-> "none", items |-> <<>>],
      [exists |-> TRUE, json |-> "unparsable", items |-> <<>>],
      [exists |-> TRUE, json |-> "object", items |-> <<>>] }
    \cup { [exists |-> TRUE, json |-> "array", items |-> its] :
             its \in SeqsUpTo(ItemPool, MaxEntries) }

\* The page sources: one that generateAllElementLocators parses into elements,
\* or a malformed one
PageSources ==
    { [wellFormed |-> TRUE, elements |-> es] : es \in SeqsUpTo(ElementPool, MaxElements) }
    \cup { [wellFormed |-> FALSE, elements |-> <<>>] }

\* The other tools of the server: one call of appium_place_stock_order, and one
\* invocation of a tool through the logging wrapper of registerTools.  They
\* share nothing with a check_locators_from_file call, which leaves them as
\* they are.
VARIABLES
    order,                   \* the state of the appium_place_stock_order call
    invocation               \* the state of the wrapped tool invocation

OrderNotStarted ==
    [pc |-> "idle", driver |-> FALSE, platformName |-> "Android", hasClear |-> FALSE,
     phase |-> 0, steps |-> <<>>, actions |-> <<>>,
     match |-> [found |-> FALSE, locators |-> <<>>],
     picked |-> [strategy |-> "none", selector |-> "none"],
     clearFailed |-> FALSE, outcome |-> [type |-> "pending"]]

InvocationNotStarted ==
    [pc |-> "idle", toolName |-> "unknown_tool",
     args |-> [t |-> "object", v |-> "none", props |-> <<>>],
     log |-> <<>>, passed |-> <<>>,
     executed |-> [type |-> "pending", value |-> "none"],
     outcome |-> [type |-> "pending", value |-> "none"]]

Init ==
    /\ order = OrderNotStarted
    /\ invocation = InvocationNotStarted
    /\ driver \in BOOLEAN
    /\ file \in Files
    /\ pc = "idle"
    /\ userLocators = <<>>
    /\ pageSource = [wellFormed |-> TRUE, elements |-> <<>>]
    /\ allCurrentPageElements = <<>>
    /\ i = 0
    /\ results = <<>>
    /\ calls = <<>>
    /\ inflight = {}
    /\ answers = <<>>
    /\ outcome = [type |-> "pending"]

\* results.push({... found: true})
FoundResult(userLocator) ==
    [pageName |-> userLocator.pageName,
     pageElementName |-> userLocator.pageElementName,
     primaryStrategy |-> userLocator.LocatorStrategy,
     primaryLocator |-> userLocator.Locators,
     found |-> TRUE]

\* The alternates array is shared by the entries: those of the entry that
\* failed before are still in it
MissingResultSharedAlternates(userLocator, elements, err) ==
    [pageName |-> userLocator.pageName,
     pageElementName |-> userLocator.pageElementName,
     primaryStrategy |-> userLocator.LocatorStrategy,
     primaryLocator |-> userLocator.Locators,
     found |-> FALSE,
     alternateLocators |->
        slice(uniqueAlternates(
                (IF results # <<>> /\ ~results[Len(results)].found
                 THEN results[Len(results)].alternateLocators ELSE <<>>)
                \o alternatesOf(userLocator, elements)), MaxAlternates),
     error |-> ErrToString(err)]

\* results.push({... found: false, alternateLocators, error: err.toString()})
MissingResult(userLocator, elements, err) ==
    [pageName |-> userLocator.pageName,
     pageElementName |-> userLocator.pageElementName,
     primaryStrategy |-> userLocator.LocatorStrategy,
     primaryLocator |-> userLocator.Locators,
     found |-> FALSE,
     alternateLocators |-> findAlternateLocators(userLocator, elements),
     error |-> ErrToString(err)]

IsFound(r) == r.found
IsMissing(r) == ~r.found

\* The found list without its filter
foundLocatorsUnfiltered(res) == res

\* results.filter(result => result.found), results.filter(result => !result.found)
foundLocatorsOf(res) == SelectSeq(res, IsFound)
missingLocatorsOf(res) == SelectSeq(res, IsMissing)

\* The JSON text the call returns (lines 109-135)
Report(res) ==
    LET foundLocators == foundLocatorsOf(res)
        missingLocators == missingLocatorsOf(res)
    IN [totalChecked |-> Len(res),
        foundCount |-> Len(foundLocators),
        missingCount |-> Len(missingLocators),
        foundLocators |->
            [k \in 1..Len(foundLocators) |->
                [pageName |-> foundLocators[k].pageName,
                 pageElementName |-> foundLocators[k].pageElementName,
                 strategy |-> foundLocators[k].primaryStrategy,
                 selector |-> foundLocators[k].primaryLocator]],
        missingLocators |->
            [k \in 1..Len(missingLocators) |->
                [pageName |-> missingLocators[k].pageName,
                 pageElementName |-> missingLocators[k].pageElementName,
                 primaryStrategy |-> missingLocators[k].primaryStrategy,
                 primaryLocator |-> missingLocators[k].primaryLocator,
                 alternateLocators |-> missingLocators[k].alternateLocators,
                 error |-> missingLocators[k].error]],
        message |-> [checked |-> Len(res), found |-> Len(foundLocators),
                     missing |-> Len(missingLocators)]]

Returned(res) == [type |-> "result", report |-> Report(res)]

\* A loop that steps over an entry
NextIndexSkips(k) == k + 2

\* The position the for loop takes after position k
NextIndex(k) == k + 1

\* The error is swallowed and the report of the results so far is returned
FailReturnsReport(error) ==
    /\ pc' = "done"
    /\ outcome' = Returned(results)
    /\ UNCHANGED inflight

\* The handler throws: the call ends with the error
Fail(error) ==
    /\ pc' = "failed"
    /\ outcome' = Thrown(error)
    /\ UNCHANGED inflight

\* The call is not awaited: it is still in flight when the handler goes on
AfterAwaitMissing(pending, k) == pending

\* await driver.findElement(...) for entry k has settled: the handler resumes
\* with that call no longer in flight
AfterAwait(pending, k) == pending \ {k}

\* The page source is read again before each entry is looked up
FindElementAfterRefresh(k) == <<Call("getPageSource", k), Call("findElement", k)>>

\* The element is tapped once it has been looked up
FindElementThenClick(k) == <<Call("findElement", k), Call("click", k)>>

\* Line 77: the session operations issued for entry k
FindElementCall(k) == <<Call("findElement", k)>>

\* The for loop reaches position k with the results res (lines 74-77, 105-135):
\* past the end the report is returned; a null item makes the evaluation of
\* userLocator.LocatorStrategy throw, the catch runs findAlternateLocators,
\* which throws on userLocator.fieldName, and the outer catch ends the call;
\* otherwise findElement is called and awaited.
Iterate(k, res, pending) ==
    /\ i' = k
    /\ results' = res
    /\ IF k > Len(userLocators)
       THEN /\ pc' = "done"
            /\ outcome' = Returned(res)
            /\ inflight' = pending
            /\ UNCHANGED calls
       ELSE IF userLocators[k].kind = "null"
       THEN /\ pc' = "failed"
            /\ outcome' = Thrown(Wrapped(NullItemError))
            /\ inflight' = pending
            /\ UNCHANGED calls
       ELSE /\ pc' = "awaitFindElement"
            /\ inflight' = pending \cup {k}
            /\ calls' = calls \o FindElementCall(k)
            /\ UNCHANGED outcome

\* The array check left out
IsArrayUnchecked(f) == TRUE

\* Array.isArray(userLocators)
IsArray(f) == f.json = "array"

\* The file checks made before the session check
PreflightFileFirst(d, f) ==
    IF ~f.exists
    THEN [ok |-> FALSE, error |-> Wrapped(FileNotFoundError),
          ops |-> <<Call("existsSync", 0)>>]
    ELSE IF f.json = "unparsable"
    THEN [ok |-> FALSE, error |-> Wrapped(JsonSyntaxError),
          ops |-> <<Call("existsSync", 0), Call("readFileSync", 0)>>]
    ELSE IF ~IsArray(f)
    THEN [ok |-> FALSE, error |-> Wrapped(NotAnArrayError),
          ops |-> <<Call("existsSync", 0), Call("readFileSync", 0)>>]
    ELSE IF ~d
    THEN [ok |-> FALSE, error |-> NoSessionError,
          ops |-> <<Call("existsSync", 0), Call("readFileSync", 0)>>]
    ELSE [ok |-> TRUE, error |-> NoSessionError,
          ops |-> <<Call("existsSync", 0), Call("readFileSync", 0)>>]

\* Lines 43-60: the session check and the checks of the locator file, in the
\* order the code makes them: the error thrown (none when all pass) and the
\* file-system operations made on the way.
Preflight(d, f) ==
    IF ~d
    THEN [ok |-> FALSE, error |-> NoSessionError, ops |-> <<>>]
    ELSE IF ~f.exists
    THEN [ok |-> FALSE, error |-> Wrapped(FileNotFoundError),
          ops |-> <<Call("existsSync", 0)>>]
    ELSE IF f.json = "unparsable"
    THEN [ok |-> FALSE, error |-> Wrapped(JsonSyntaxError),
          ops |-> <<Call("existsSync", 0), Call("readFileSync", 0)>>]
    ELSE IF ~IsArray(f)
    THEN [ok |-> FALSE, error |-> Wrapped(NotAnArrayError),
          ops |-> <<Call("existsSync", 0), Call("readFileSync", 0)>>]
    ELSE [ok |-> TRUE, error |-> NoSessionError,
          ops |-> <<Call("existsSync", 0), Call("readFileSync", 0)>>]

\* No page source read before the loop
SnapshotReadDeferred == <<>>

\* Line 63: the session operations issued once the file has passed its checks
SnapshotRead == <<Call("getPageSource", 0)>>

\* Lines 43-63: the session check, the file checks, then getPageSource is called
Execute ==
    /\ pc = "idle"
    /\ UNCHANGED <<order, invocation>>
    /\ UNCHANGED <<driver, file, pageSource, allCurrentPageElements, i, results,
                   inflight, answers>>
    /\ calls' = calls \o Preflight(driver, file).ops
                      \o (IF Preflight(driver, file).ok THEN SnapshotRead ELSE <<>>)
    /\ IF Preflight(driver, file).ok
       THEN /\ userLocators' = file.items
            /\ pc' = "awaitPageSource"
            /\ UNCHANGED outcome
       ELSE /\ pc' = "failed"
            /\ outcome' = Thrown(Preflight(driver, file).error)
            /\ UNCHANGED userLocators

\* await driver.getPageSource() resolves; driver.caps.automationName is read
PageSourceResolves ==
    /\ pc = "awaitPageSource"
    /\ UNCHANGED <<order, invocation>>
    /\ \E src \in PageSources : pageSource' = src
    /\ calls' = Append(calls, Call("automationName", 0))
    /\ pc' = "awaitAutomationName"
    /\ UNCHANGED <<driver, file, userLocators, allCurrentPageElements, i, results,
                   inflight, answers, outcome>>

\* await driver.getPageSource() rejects
PageSourceRejects ==
    /\ pc = "awaitPageSource"
    /\ UNCHANGED <<order, invocation>>
    /\ Fail(Wrapped(PageSourceError))
    /\ UNCHANGED <<driver, file, userLocators, pageSource, allCurrentPageElements,
                   i, results, calls, answers>>

\* Lines 64-77: the automation name is lower-cased, the snapshot is generated
\* and the loop starts
SnapshotTaken ==
    /\ pc = "awaitAutomationName"
    /\ UNCHANGED <<order, invocation>>
    /\ pageSource.wellFormed
    /\ allCurrentPageElements' = pageSource.elements
    /\ Iterate(1, <<>>, inflight)
    /\ UNCHANGED <<driver, file, userLocators, pageSource, answers>>

\* Lines 64-69 throw: the capabilities hold no automationName, or
\* generateAllElementLocators rejects the page source
SnapshotFails ==
    /\ pc = "awaitAutomationName"
    /\ UNCHANGED <<order, invocation>>
    /\ \/ Fail(Wrapped(NoAutomationNameError))
       \/ ~pageSource.wellFormed /\ Fail(Wrapped(ParseError))
    /\ UNCHANGED <<driver, file, userLocators, pageSource, allCurrentPageElements,
                   i, results, calls, answers>>

\* The driver's answer to the findElement call for entry k
Answer(k, ok, err) == [idx |-> k, ok |-> ok, err |-> err]

\* await driver.findElement(...) resolves (lines 77-85), and the loop goes on
FindElementResolves ==
    /\ pc = "awaitFindElement"
    /\ UNCHANGED <<order, invocation>>
    /\ answers' = Append(answers, Answer(i, TRUE, NoSessionError))
    /\ Iterate(NextIndex(i), Append(results, FoundResult(userLocators[i])),
               AfterAwait(inflight, i))
    /\ UNCHANGED <<driver, file, userLocators, pageSource, allCurrentPageElements>>

\* await driver.findElement(...) rejects (lines 86-102), and the loop goes on:
\* the catch block computes the alternates, and if that throws the outer catch
\* ends the call
FindElementRejects ==
    /\ pc = "awaitFindElement"
    /\ UNCHANGED <<order, invocation>>
    /\ \E err \in DriverErrors :
        /\ answers' = Append(answers, Answer(i, FALSE, err))
        /\ IF findAlternateLocatorsThrows(userLocators[i], allCurrentPageElements)
           THEN /\ pc' = "failed"
                /\ outcome' = Thrown(Wrapped(NotAFunctionError))
                /\ inflight' = AfterAwait(inflight, i)
                /\ UNCHANGED <<i, results, calls>>
           ELSE Iterate(NextIndex(i),
                        Append(results,
                               MissingResult(userLocators[i], allCurrentPageElements, err)),
                        AfterAwait(inflight, i))
    /\ UNCHANGED <<driver, file, userLocators, pageSource, allCurrentPageElements>>

Next ==
    \/ Execute
    \/ PageSourceResolves
    \/ PageSourceRejects
    \/ SnapshotTaken
    \/ SnapshotFails
    \/ FindElementResolves
    \/ FindElementRejects

Spec == Init /\ [][Next]_<<vars, order, invocation>>

----------------------------------------------------------------------------
\* Properties

Range(f) == { f[k] : k \in DOMAIN f }

IsOk(a) == a.ok
IsFindElement(c) == c.op = "findElement"
IsGetPageSource(c) == c.op = "getPageSource"
IsSessionOp(c) == c.op \in SessionOps

\* The number of findElement calls among the first k that resolved
OkUpTo(k) == Len(SelectSeq(SubSeq(answers, 1, k), IsOk))

FindCalls == SelectSeq(calls, IsFindElement)
SessionCalls == SelectSeq(calls, IsSessionOp)

AllResolved == \A k \in 1..Len(answers) : answers[k].ok

\* The locator file is missing, is no JSON, or is JSON but no array
BadFile(f) == ~f.exists \/ f.json # "array"

\* The locator file is an array with an item of another shape than UserLocatorEntry
Malformed(f) ==
    /\ f.exists
    /\ f.json = "array"
    /\ \E k \in 1..Len(f.items) : ~Conforms(f.items[k])

\* C1: every entry whose findElement call resolves gets a result with
\* found = true and no alternateLocators, and in the report it is counted in
\* foundCount and listed in foundLocators, not in missingCount.
C1_ResolvedIsFound ==
    /\ \A k \in 1..Len(answers) :
        answers[k].ok =>
            /\ k <= Len(results)
            /\ results[k].found
            /\ "alternateLocators" \notin DOMAIN results[k]
            /\ results[k].primaryLocator = userLocators[k].Locators
    /\ pc = "done" =>
        /\ outcome.report.foundCount = OkUpTo(Len(answers))
        /\ outcome.report.missingCount = Len(answers) - OkUpTo(Len(answers))
        /\ \A k \in 1..Len(answers) :
            answers[k].ok =>
                outcome.report.foundLocators[OkUpTo(k)].selector = userLocators[k].Locators

C1_Witness ==
    /\ pc = "done"
    /\ \E k \in 1..Len(answers) : answers[k].ok
    /\ \E k \in 1..Len(answers) : ~answers[k].ok

NoDuplicatePairs(alts) ==
    \A a, b \in 1..Len(alts) : a # b => ~SamePair(alts[a], alts[b])

\* C2: for every entry whose primary resolution failed, the alternates of its
\* result are at most 5 and no two of them have the same (strategy, selector).
C2_AlternatesCappedAndUnique ==
    \A k \in 1..Len(results) :
        ~results[k].found =>
            /\ Len(results[k].alternateLocators) <= 5
            /\ NoDuplicatePairs(results[k].alternateLocators)

\* A failed entry whose emissions repeat a pair and hold more than 5 distinct ones
C2_Witness ==
    \E k \in 1..Len(results) :
        /\ ~results[k].found
        /\ ~NoDuplicatePairs(alternatesOf(userLocators[k], allCurrentPageElements))
        /\ Len(uniqueAlternates(alternatesOf(userLocators[k], allCurrentPageElements))) > 5
        /\ Len(results[k].alternateLocators) = 5

\* C3: a call that returns reports one result per entry of the file:
\* totalChecked is the number of entries, foundCount + missingCount is
\* totalChecked, and every entry is listed in exactly one of foundLocators and
\* missingLocators, at its place in file order.
C3_OneResultPerEntry ==
    pc = "done" =>
        LET report == outcome.report IN
        /\ report.totalChecked = Len(userLocators)
        /\ report.foundCount + report.missingCount = report.totalChecked
        /\ Len(report.foundLocators) = report.foundCount
        /\ Len(report.missingLocators) = report.missingCount
        /\ Len(answers) = Len(userLocators)
        /\ \A k \in 1..Len(userLocators) :
            IF answers[k].ok
            THEN /\ OkUpTo(k) <= report.foundCount
                 /\ report.foundLocators[OkUpTo(k)].selector = userLocators[k].Locators
                 /\ report.foundLocators[OkUpTo(k)].strategy = userLocators[k].LocatorStrategy
                 /\ report.foundLocators[OkUpTo(k)].pageElementName
                        = userLocators[k].pageElementName
            ELSE /\ k - OkUpTo(k) <= report.missingCount
                 /\ report.missingLocators[k - OkUpTo(k)].primaryLocator
                        = userLocators[k].Locators
                 /\ report.missingLocators[k - OkUpTo(k)].primaryStrategy
                        = userLocators[k].LocatorStrategy
                 /\ report.missingLocators[k - OkUpTo(k)].pageElementName
                        = userLocators[k].pageElementName

C3_Witness ==
    /\ pc = "done"
    /\ Len(userLocators) >= 2
    /\ outcome.report.foundCount >= 1
    /\ outcome.report.missingCount >= 1

\* C4: a rejected findElement call never aborts the batch: the entry is
\* recorded as found = false and the call does not fail.
C4_FailureNeverAborts ==
    \A k \in 1..Len(answers) :
        ~answers[k].ok =>
            /\ pc # "failed"
            /\ k <= Len(results)
            /\ ~results[k].found

\* C5: with a locator file that is missing, no JSON or no array, the call
\* fails and has issued no getPageSource, automationName or findElement.
C5_BadFileFailsBeforeSession ==
    BadFile(file) =>
        /\ SessionCalls = <<>>
        /\ pc \in {"idle", "failed"}
        /\ pc = "failed" => outcome.type = "error"

C5_Witness ==
    /\ driver
    /\ file.exists
    /\ file.json = "object"
    /\ pc = "failed"

\* C6: a locator file whose array holds an item of another shape than
\* UserLocatorEntry is rejected before any session operation and before any
\* entry is resolved.
C6_ShapeCheckedBeforeSession ==
    Malformed(file) =>
        /\ SessionCalls = <<>>
        /\ results = <<>>
        /\ pc \in {"idle", "failed"}

\* C7: without a driver session the call fails with the no-session error and
\* has read no file, made no driver call and produced no result.
C7_NoSessionFailsFirst ==
    ~driver =>
        /\ calls = <<>>
        /\ results = <<>>
        /\ pc \in {"idle", "failed"}
        /\ pc = "failed" => outcome = Thrown(NoSessionError)

C7_Witness ==
    /\ ~driver
    /\ pc = "failed"
    /\ file.exists
    /\ file.json = "array"
    /\ file.items # <<>>

\* C8: the entries are resolved one at a time in file order: the k-th
\* findElement call is for entry k, it is issued only when the calls before it
\* have settled and their results are recorded, and never is more than one
\* findElement call in flight.
C8_Sequential ==
    /\ Cardinality(inflight) <= 1
    /\ \A k \in 1..Len(FindCalls) : FindCalls[k].idx = k
    /\ \A k \in 1..Len(answers) : answers[k].idx = k
    /\ Len(FindCalls) = Len(answers) + Cardinality(inflight)
    /\ Len(results) >= Len(FindCalls) - 1
    /\ pc = "awaitFindElement" =>
        /\ inflight = {i}
        /\ Len(FindCalls) = i
        /\ Len(results) = i - 1

C8_Witness ==
    /\ pc = "awaitFindElement"
    /\ i >= 2
    /\ ~answers[1].ok

\* C9 as stated: the page source is read only after a findElement call has
\* failed, and a run in which every entry resolves reads no page source.
C9_SnapshotOnlyAfterFailure ==
    /\ \A p \in 1..Len(calls) :
        calls[p].op = "getPageSource" =>
            \E q \in 1..(p - 1) : calls[q].op = "findElement"
    /\ (pc = "done" /\ AllResolved) => SelectSeq(calls, IsGetPageSource) = <<>>

\* C9 amended: the page source is read once, before the first findElement
\* call, whether or not an entry fails: every findElement call follows the
\* getPageSource call, and a run that returns has issued exactly one
\* getPageSource call, also when every entry resolved.
C9_SnapshotBeforeResolution ==
    /\ \A p \in 1..Len(calls) :
        calls[p].op = "findElement" =>
            \E q \in 1..(p - 1) : calls[q].op = "getPageSource"
    /\ pc = "done" => Len(SelectSeq(calls, IsGetPageSource)) = 1

C9_Witness ==
    /\ pc = "done"
    /\ Len(answers) >= 1
    /\ AllResolved
    /\ Len(SelectSeq(calls, IsGetPageSource)) = 1

\* Some attribute of the element contains the target text, case-insensitively
AnyAttributeContains(userLocator, element) ==
    LET target == toLowerCase(targetTextOf(userLocator).s) IN
    \/ includes(toLowerCase(element.text), target)
    \/ includes(toLowerCase(element.contentDesc), target)
    \/ includes(toLowerCase(element.resourceId), target)

\* C10: for a failed entry with a non-empty target text, every element of the
\* snapshot one of whose text, contentDesc and resourceId contains it
\* case-insensitively is a match: its locators are emitted as alternates.
C10_AnyAttributeMatches ==
    \A k \in 1..Len(results) :
        (/\ ~results[k].found
         /\ targetTextOf(userLocators[k]).t = "string"
         /\ targetTextOf(userLocators[k]).s # <<>>) =>
            \A e \in 1..Len(allCurrentPageElements) :
                AnyAttributeContains(userLocators[k], allCurrentPageElements[e]) =>
                    /\ TextMatches(userLocators[k], allCurrentPageElements[e])
                    /\ Range(AllLocatorsOf(allCurrentPageElements[e]))
                         \subseteq Range(alternatesOf(userLocators[k], allCurrentPageElements))

\* A label value that counts as empty: missing, or the empty string
IsEmptyLabel(v) == v.t = "undefined" \/ (v.t = "string" /\ v.s = <<>>)

\* The first non-empty value among fieldName, remarks, pageElementName
FirstNonEmptyLabel(userLocator) ==
    IF ~IsEmptyLabel(userLocator.fieldName) THEN userLocator.fieldName
    ELSE IF ~IsEmptyLabel(userLocator.remarks) THEN userLocator.remarks
    ELSE userLocator.pageElementName

\* The elements of the snapshot whose text branch emitted for the entry
TextMatched(userLocator, elements) ==
    { e \in 1..Len(elements) : TextEmits(userLocator, elements[e]) # <<>> }

\* The elements whose element text contains the label, case-insensitively
ContainsLabel(label, elements) ==
    { e \in 1..Len(elements) :
        /\ label.t = "string"
        /\ label.s # <<>>
        /\ elementTextOf(elements[e]) # <<>>
        /\ includes(toLowerCase(elementTextOf(elements[e])), toLowerCase(label.s)) }

\* C11: the target text of a failed entry is the first non-empty value among
\* fieldName, remarks, pageElementName, in that order, and the elements matched
\* by text are those whose text contains that value.
C11_TargetLabelPriority ==
    \A k \in 1..Len(results) :
        ~results[k].found =>
            /\ targetTextOf(userLocators[k]) = FirstNonEmptyLabel(userLocators[k])
            /\ TextMatched(userLocators[k], allCurrentPageElements)
                 = ContainsLabel(FirstNonEmptyLabel(userLocators[k]), allCurrentPageElements)

\* A failed entry matched through remarks (fieldName empty, pageElementName
\* another non-empty text), and one matched through pageElementName alone
C11_Witness ==
    /\ \E k \in 1..Len(results) :
        /\ ~results[k].found
        /\ userLocators[k].fieldName = Str(<<>>)
        /\ ~IsEmptyLabel(userLocators[k].remarks)
        /\ ~IsEmptyLabel(userLocators[k].pageElementName)
        /\ userLocators[k].remarks # userLocators[k].pageElementName
        /\ TextMatched(userLocators[k], allCurrentPageElements) # {}
    /\ \E k \in 1..Len(results) :
        /\ ~results[k].found
        /\ IsEmptyLabel(userLocators[k].fieldName)
        /\ IsEmptyLabel(userLocators[k].remarks)
        /\ TextMatched(userLocators[k], allCurrentPageElements) # {}

\* C12: no alternate returned for a failed entry uses the strategy the entry
\* already tried, whether its element matched by text or by exact selector.
C12_NoAlternateWithTriedStrategy ==
    \A k \in 1..Len(results) :
        ~results[k].found =>
            \A a \in 1..Len(results[k].alternateLocators) :
                results[k].alternateLocators[a].strategy # userLocators[k].LocatorStrategy

PairOf(a) == <<a.strategy, a.selector>>
Pairs(alts) == { PairOf(alts[k]) : k \in 1..Len(alts) }

\* The emissions for entry k of the file against the snapshot, before the
\* filter and the slice
EmissionOf(k) == alternatesOf(userLocators[k], allCurrentPageElements)

\* The number of distinct pairs emitted before the first emission of pair
DistinctBefore(emission, pair) ==
    LET first == CHOOSE p \in 1..Len(emission) :
                    /\ PairOf(emission[p]) = pair
                    /\ \A q \in 1..(p - 1) : PairOf(emission[q]) # pair
    IN Cardinality(Pairs(SubSeq(emission, 1, first - 1)))

\* Some selector of the element is the entry's Locators string
ReusesSelector(userLocator, element) ==
    \E j \in 1..Len(element.locators) :
        element.locators[j].selector = userLocator.Locators

\* C13 as stated: for a failed entry whose Locators string is a selector of a
\* snapshot element, every locator of that element under another strategy is
\* among the returned alternates, wherever the element stands in the snapshot.
C13_ReusedElementAlwaysReturned ==
    \A k \in 1..Len(results) :
        ~results[k].found =>
            \A e \in 1..Len(allCurrentPageElements) :
                ReusesSelector(userLocators[k], allCurrentPageElements[e]) =>
                    \A j \in 1..Len(allCurrentPageElements[e].locators) :
                        LET loc == allCurrentPageElements[e].locators[j] IN
                        loc.strategy # userLocators[k].LocatorStrategy =>
                            PairOf(loc) \in Pairs(results[k].alternateLocators)

\* C13 amended: every such locator is emitted, and it is among the returned
\* alternates exactly when fewer than 5 distinct (strategy, selector) pairs
\* are emitted before it.
C13_ReusedElementEmitted ==
    \A k \in 1..Len(results) :
        (/\ ~results[k].found
         /\ \E e \in 1..Len(allCurrentPageElements) :
                ReusesSelector(userLocators[k], allCurrentPageElements[e])) =>
            \A emission \in {EmissionOf(k)} :
            \A e \in 1..Len(allCurrentPageElements) :
                ReusesSelector(userLocators[k], allCurrentPageElements[e]) =>
                    \A j \in 1..Len(allCurrentPageElements[e].locators) :
                        LET loc == allCurrentPageElements[e].locators[j] IN
                        loc.strategy # userLocators[k].LocatorStrategy =>
                            /\ PairOf(loc) \in Pairs(emission)
                            /\ PairOf(loc) \in Pairs(results[k].alternateLocators)
                                 <=> DistinctBefore(emission, PairOf(loc)) < 5

\* A reused element that follows another matching element loses a locator to
\* the cap, and a reused element has a locator returned
C13_Witness ==
    /\ \E k \in 1..Len(results) :
        /\ ~results[k].found
        /\ \E e \in 2..Len(allCurrentPageElements) :
            /\ ReusesSelector(userLocators[k], allCurrentPageElements[e])
            /\ \E j \in 1..Len(allCurrentPageElements[e].locators) :
                LET loc == allCurrentPageElements[e].locators[j] IN
                /\ loc.strategy # userLocators[k].LocatorStrategy
                /\ PairOf(loc) \notin Pairs(results[k].alternateLocators)
    /\ \E k \in 1..Len(results) :
        /\ ~results[k].found
        /\ \E e \in 1..Len(allCurrentPageElements) :
            /\ ReusesSelector(userLocators[k], allCurrentPageElements[e])
            /\ \E j \in 1..Len(allCurrentPageElements[e].locators) :
                LET loc == allCurrentPageElements[e].locators[j] IN
                /\ loc.strategy # userLocators[k].LocatorStrategy
                /\ PairOf(loc) \in Pairs(results[k].alternateLocators)

\* The index of the first emission of the pair
FirstEmission(emission, pair) ==
    CHOOSE p \in 1..Len(emission) :
        /\ PairOf(emission[p]) = pair
        /\ \A q \in 1..(p - 1) : PairOf(emission[q]) # pair

\* C14: the emissions follow the order of the snapshot's elements, for one
\* element the text emissions before the exact ones; the returned alternates
\* are the first min(5, n) of the n distinct (strategy, selector) pairs emitted,
\* each pair at its first occurrence, so duplicates are removed before the cap.
C14_FirstFiveDistinctInOrder ==
    \A k \in 1..Len(results) :
        ~results[k].found =>
            \A emission \in {Flatten([e \in 1..Len(allCurrentPageElements) |->
                        TextEmits(userLocators[k], allCurrentPageElements[e])
                        \o ExactEmits(userLocators[k], allCurrentPageElements[e])])} :
            LET alts == results[k].alternateLocators
            IN /\ Len(alts) = Min(5, Cardinality(Pairs(emission)))
               /\ \A j \in 1..Len(alts) :
                    /\ PairOf(alts[j]) \in Pairs(emission)
                    /\ \A first \in {FirstEmission(emission, PairOf(alts[j]))} :
                        /\ Cardinality(Pairs(SubSeq(emission, 1, first - 1))) = j - 1
                        /\ alts[j] = emission[first]

\* A failed entry whose first 5 emissions repeat a pair while 5 or more
\* distinct pairs are emitted
C14_Witness ==
    \E k \in 1..Len(results) :
        /\ ~results[k].found
        /\ Len(EmissionOf(k)) >= 5
        /\ Cardinality(Pairs(SubSeq(EmissionOf(k), 1, 5))) < 5
        /\ Cardinality(Pairs(EmissionOf(k))) >= 5
        /\ Len(results[k].alternateLocators) = 5

\* The locator the entry tried
TriedLocator(userLocator) == Loc(userLocator.LocatorStrategy, userLocator.Locators)

\* Entries j and k of the file target one element of the snapshot under two
\* strategies; the call for j resolved and the one for k failed and is reported
SameElementTwoStrategies(j, k) ==
    /\ j <= Len(answers)
    /\ k <= Len(results)
    /\ answers[j].ok
    /\ ~results[k].found
    /\ userLocators[j].LocatorStrategy # userLocators[k].LocatorStrategy
    /\ \E e \in 1..Len(allCurrentPageElements) :
        /\ TriedLocator(userLocators[j]) \in Range(allCurrentPageElements[e].locators)
        /\ TriedLocator(userLocators[k]) \in Range(allCurrentPageElements[e].locators)

\* C15 as stated: when two entries target the same element under different
\* strategies and one resolves while the other fails, the alternates returned
\* for the failing one include a locator with the strategy of the other.
C15_OtherStrategyReturned ==
    \A j, k \in 1..Len(userLocators) :
        SameElementTwoStrategies(j, k) =>
            \E a \in 1..Len(results[k].alternateLocators) :
                results[k].alternateLocators[a].strategy = userLocators[j].LocatorStrategy

\* C15 amended: the locator of the resolving entry is emitted for the failing
\* one, and it is among the returned alternates exactly when fewer than 5
\* distinct (strategy, selector) pairs are emitted before it.
C15_OtherStrategyEmitted ==
    \A j, k \in 1..Len(userLocators) :
        SameElementTwoStrategies(j, k) =>
            \A emission \in {EmissionOf(k)} :
            LET pair == <<userLocators[j].LocatorStrategy, userLocators[j].Locators>> IN
            /\ pair \in Pairs(emission)
            /\ pair \in Pairs(results[k].alternateLocators)
                 <=> DistinctBefore(emission, pair) < 5

\* The scenario, with the other entry's locator among the returned alternates
C15_Witness ==
    \E j, k \in 1..Len(userLocators) :
        /\ SameElementTwoStrategies(j, k)
        /\ <<userLocators[j].LocatorStrategy, userLocators[j].Locators>>
              \in Pairs(results[k].alternateLocators)

\* The findElement call for entry k failed and the entry's target label, a
\* non-empty string, is contained case-insensitively in the text of element e
LabelInTextOf(k, e) ==
    /\ k <= Len(answers)
    /\ ~answers[k].ok
    /\ FirstNonEmptyLabel(userLocators[k]).t = "string"
    /\ FirstNonEmptyLabel(userLocators[k]).s # <<>>
    /\ includes(toLowerCase(allCurrentPageElements[e].text),
                toLowerCase(FirstNonEmptyLabel(userLocators[k]).s))

\* C16 as stated: for a failed entry whose target label is contained in the
\* text of a snapshot element, the result has found = false and the returned
\* alternates include a locator of that element.
C16_TextMatchReturned ==
    \A k \in 1..Len(userLocators) :
        \A e \in 1..Len(allCurrentPageElements) :
            LabelInTextOf(k, e) =>
                /\ k <= Len(results)
                /\ ~results[k].found
                /\ \E a \in 1..Len(results[k].alternateLocators) :
                    results[k].alternateLocators[a]
                        \in Range(AllLocatorsOf(allCurrentPageElements[e]))

\* C16 amended: the result has found = false, every locator of that element is
\* emitted, and each is among the returned alternates exactly when fewer than
\* 5 distinct (strategy, selector) pairs are emitted before it.
C16_TextMatchEmitted ==
    \A k \in 1..Len(userLocators) :
        (\E e \in 1..Len(allCurrentPageElements) : LabelInTextOf(k, e)) =>
        \A emission \in {EmissionOf(k)} :
        \A e \in 1..Len(allCurrentPageElements) :
            LabelInTextOf(k, e) =>
                /\ k <= Len(results)
                /\ ~results[k].found
                /\ \A j \in 1..Len(allCurrentPageElements[e].locators) :
                    LET pair == PairOf(allCurrentPageElements[e].locators[j]) IN
                    /\ pair \in Pairs(emission)
                    /\ pair \in Pairs(results[k].alternateLocators)
                         <=> DistinctBefore(emission, pair) < 5

\* A label that the element's text contains only up to letter case, on an
\* element that is not the first of the snapshot, with a locator of it returned
C16_Witness ==
    \E k \in 1..Len(results) :
        \E e \in 2..Len(allCurrentPageElements) :
            /\ LabelInTextOf(k, e)
            /\ ~includes(allCurrentPageElements[e].text,
                         FirstNonEmptyLabel(userLocators[k]).s)
            /\ \E a \in 1..Len(results[k].alternateLocators) :
                results[k].alternateLocators[a]
                    \in Range(AllLocatorsOf(allCurrentPageElements[e]))

IsAutomationName(c) == c.op = "automationName"

\* The errors of the snapshot phase, as the caller receives them
SnapshotErrors ==
    { Wrapped(PageSourceError), Wrapped(NoAutomationNameError), Wrapped(ParseError) }

\* C17: when the page-source read, the automation-name read or the parsing of
\* the page source fails, the call fails: it returns no report, has recorded no
\* result and has issued no findElement call; the loop starts, and a report is
\* returned, only after all three succeeded.
C17_SnapshotFailureIsFatal ==
    /\ (outcome.type = "error" /\ outcome.error \in SnapshotErrors) =>
        /\ pc = "failed"
        /\ FindCalls = <<>>
        /\ results = <<>>
    /\ (~pageSource.wellFormed /\ pc # "awaitAutomationName") =>
        /\ pc = "failed"
        /\ outcome.type = "error"
        /\ FindCalls = <<>>
        /\ results = <<>>
    /\ (FindCalls # <<>> \/ pc = "done") =>
        /\ pageSource.wellFormed
        /\ SelectSeq(calls, IsGetPageSource) # <<>>
        /\ SelectSeq(calls, IsAutomationName) # <<>>
        /\ allCurrentPageElements = pageSource.elements
    /\ pc = "done" =>
        /\ outcome.type = "result"
        /\ outcome.report.totalChecked = Len(userLocators)

\* The page-source read failed for a file with entries
C17_Witness ==
    /\ pc = "failed"
    /\ outcome.error = Wrapped(PageSourceError)
    /\ userLocators # <<>>

\* C18: the error of every not-found result is the string form, name and
\* message, of the error with which that entry's own findElement call was
\* rejected.
C18_OwnResolutionError ==
    \A k \in 1..Len(results) :
        ~results[k].found =>
            /\ ~answers[k].ok
            /\ answers[k].idx = k
            /\ results[k].error = <<answers[k].err.name, ": ">> \o answers[k].err.message

\* Two failed entries whose calls were rejected with different errors
C18_Witness ==
    \E j, k \in 1..Len(results) :
        /\ ~results[j].found
        /\ ~results[k].found
        /\ answers[j].err # answers[k].err
        /\ results[j].error # results[k].error

\* The operations that only read: of the file system, and of the session
ReadOnlyOps == {"existsSync", "readFileSync"} \cup SessionOps

\* C19: validation only reads.  The locator file is never changed, the parsed
\* entries stay those of the file, no result is changed once recorded, and
\* every operation issued is existsSync or readFileSync on the file, or
\* getPageSource, the automationName read or findElement on the session.
C19_ReadOnly ==
    /\ [](\A k \in 1..Len(calls) : calls[k].op \in ReadOnlyOps)
    /\ [](pc \notin {"idle", "failed"} => userLocators = file.items)
    /\ [][/\ file' = file
          /\ driver' = driver
          /\ pc # "idle" => userLocators' = userLocators]_vars

\* A run over two entries, one resolved and one not, has returned
C19_Witness ==
    /\ pc = "done"
    /\ Len(userLocators) >= 2
    /\ \E j, k \in 1..Len(results) : results[j].found /\ ~results[k].found
    /\ \E k \in 1..Len(calls) : calls[k].op = "findElement"
    /\ \E k \in 1..Len(calls) : calls[k].op = "readFileSync"

\* The fatal errors the state of an aborted call allows as its cause: the
\* file checks fail on the file as it is, getPageSource is the last call made
\* when it rejects, and the automationName read is the last call made when
\* lines 64-69 throw before the loop
OriginalFatalErrors ==
    IF ~file.exists THEN {FileNotFoundError}
    ELSE IF file.json = "unparsable" THEN {JsonSyntaxError}
    ELSE IF file.json = "object" THEN {NotAnArrayError}
    ELSE IF calls[Len(calls)].op = "getPageSource" THEN {PageSourceError}
    ELSE IF pageSource.wellFormed THEN {NoAutomationNameError}
    ELSE {NoAutomationNameError, ParseError}

\* The call was aborted, with a session, before the loop started
AbortedBeforeLoop == pc = "failed" /\ driver /\ i = 0

\* C20 as stated: the message delivered for a fatal error is the original
\* error's message unchanged.
C20_FatalMessageVerbatim ==
    AbortedBeforeLoop =>
        \E e \in OriginalFatalErrors : outcome.error.message = e.message

\* C20: the message delivered for a fatal error (missing file, invalid JSON,
\* non-array body, page-source or parse failure) is "Failed to check
\* locators: " followed by the original error's message unchanged, on an
\* error named Error.
C20_FatalMessagePrefixed ==
    AbortedBeforeLoop =>
        /\ outcome.type = "error"
        /\ outcome.error.name = "Error"
        /\ \E e \in OriginalFatalErrors :
            outcome.error.message = <<"Failed to check locators: ">> \o e.message

\* An unparsable file: the SyntaxError of JSON.parse is delivered wrapped
C20_Witness ==
    /\ AbortedBeforeLoop
    /\ file.json = "unparsable"
    /\ outcome.error.message = <<"Failed to check locators: ", "Unexpected token in JSON">>

\* The positions in calls of the calls of one operation
PositionsOf(op) == { p \in 1..Len(calls) : calls[p].op = op }

\* The file passed its checks and the run has started
PassedFileChecks == pc # "idle" /\ Preflight(driver, file).ok

\* One getPageSource call exactly when the file checks have passed, one
\* automationName read exactly when that call has resolved, both before any
\* findElement call, and the loop runs on the snapshot read then
SnapshotReadOnceBeforeLoop ==
    /\ PassedFileChecks <=> Cardinality(PositionsOf("getPageSource")) = 1
    /\ ~PassedFileChecks => PositionsOf("getPageSource") = {}
    /\ Cardinality(PositionsOf("automationName")) =
         (IF \/ pc \in {"awaitAutomationName", "awaitFindElement", "done"}
             \/ /\ pc = "failed"
                /\ PassedFileChecks
                /\ calls[Len(calls)].op # "getPageSource"
          THEN 1 ELSE 0)
    /\ \A g \in PositionsOf("getPageSource"), a \in PositionsOf("automationName") : g < a
    /\ \A a \in PositionsOf("automationName"), f \in PositionsOf("findElement") : a < f
    /\ PositionsOf("findElement") # {} =>
        /\ Cardinality(PositionsOf("automationName")) = 1
        /\ allCurrentPageElements = pageSource.elements

AllLabelsEmpty(userLocator) ==
    /\ IsEmptyLabel(userLocator.fieldName)
    /\ IsEmptyLabel(userLocator.remarks)
    /\ IsEmptyLabel(userLocator.pageElementName)

\* C23: for a failed entry whose fieldName, remarks and pageElementName are
\* all empty, no element is matched by text, and every returned alternate is
\* a locator, under another strategy, of an element one of whose selectors is
\* the entry's Locators string.
C23_EmptyLabelMatchesNothing ==
    \A k \in 1..Len(results) :
        (~results[k].found /\ AllLabelsEmpty(userLocators[k])) =>
            /\ TextMatched(userLocators[k], allCurrentPageElements) = {}
            /\ \A a \in 1..Len(results[k].alternateLocators) :
                /\ results[k].alternateLocators[a].strategy # userLocators[k].LocatorStrategy
                /\ \E e \in 1..Len(allCurrentPageElements) :
                    /\ ReusesSelector(userLocators[k], allCurrentPageElements[e])
                    /\ results[k].alternateLocators[a]
                         \in Range(AllLocatorsOf(allCurrentPageElements[e]))

\* An entry without labels fails on a snapshot holding an element with a text
\* whose selector it does not reuse, and one whose selector it reuses
C23_Witness ==
    \E k \in 1..Len(results) :
        /\ ~results[k].found
        /\ AllLabelsEmpty(userLocators[k])
        /\ results[k].alternateLocators # <<>>
        /\ \E e \in 1..Len(allCurrentPageElements) :
            /\ elementTextOf(allCurrentPageElements[e]) # <<>>
            /\ ~ReusesSelector(userLocators[k], allCurrentPageElements[e])

\* The result of one entry as a function of the entry, of how its own
\* findElement call was settled and of the snapshot
ResultFrom(userLocator, answer, elements) ==
    IF answer.ok
    THEN [pageName |-> userLocator.pageName,
          pageElementName |-> userLocator.pageElementName,
          primaryStrategy |-> userLocator.LocatorStrategy,
          primaryLocator |-> userLocator.Locators,
          found |-> TRUE]
    ELSE [pageName |-> userLocator.pageName,
          pageElementName |-> userLocator.pageElementName,
          primaryStrategy |-> userLocator.LocatorStrategy,
          primaryLocator |-> userLocator.Locators,
          found |-> FALSE,
          alternateLocators |-> findAlternateLocators(userLocator, elements),
          error |-> <<answer.err.name, ": ">> \o answer.err.message]

\* C22: every step either leaves the recorded results as they are or appends
\* one result, for the entry whose findElement call has just been settled, and
\* that result is a function of that entry, of the outcome of its own call and
\* of the run's snapshot alone: the entries before and after it in the file,
\* and their outcomes, do not enter, and no later entry changes it.
C22_ResultOfOwnInputs ==
    [][\/ results' = results
       \/ /\ Len(answers') = Len(answers) + 1
          /\ Len(results') = Len(answers')
          /\ results' = Append(results,
                               ResultFrom(userLocators[Len(results')],
                                          answers'[Len(results')],
                                          allCurrentPageElements))]_vars

\* Two different entries fail one after the other with different alternates,
\* the first of them not empty
C22_Witness ==
    /\ Len(results) >= 2
    /\ ~results[1].found
    /\ ~results[2].found
    /\ userLocators[1] # userLocators[2]
    /\ results[1].alternateLocators # <<>>
    /\ results[1].alternateLocators # results[2].alternateLocators

----------------------------------------------------------------------------
\* appium_place_stock_order (part_000): one call of its execute handler.  The
\* actions are cut at the awaits on the driver; delay() changes no state and is
\* left out.

\* The state of no check_locators_from_file call: the other tools' runs leave
\* it as it is
CheckLocatorsNotStarted ==
    /\ driver = FALSE
    /\ file = [exists |-> FALSE, json |-> "none", items |-> <<>>]
    /\ pc = "idle"
    /\ userLocators = <<>>
    /\ pageSource = [wellFormed |-> TRUE, elements |-> <<>>]
    /\ allCurrentPageElements = <<>>
    /\ i = 0
    /\ results = <<>>
    /\ calls = <<>>
    /\ inflight = {}
    /\ answers = <<>>
    /\ outcome = [type |-> "pending"]

\* The seven targets of the flow in the order of the code, each with the step
\* recorded before it is located, the step recorded before it is acted on, and
\* the driver action and its value
Phases ==
    << [target |-> "search field",
        locate |-> "Locating search field via generated locators",
        act |-> "Entering stock name in search field",
        op |-> "setValue", value |-> "stockName"],
       [target |-> "first search result",
        locate |-> "Locating first search result for stock via generated locators",
        act |-> "Clicking first matching search result",
        op |-> "click", value |-> "none"],
       [target |-> "BUY button",
        locate |-> "Locating BUY button via generated locators",
        act |-> "Clicking BUY button",
        op |-> "click", value |-> "none"],
       [target |-> "Delivery option",
        locate |-> "Locating Delivery option via generated locators",
        act |-> "Selecting Delivery",
        op |-> "click", value |-> "none"],
       [target |-> "Quantity field",
        locate |-> "Locating Quantity field via generated locators",
        act |-> "Setting quantity to quantityStr",
        op |-> "setValue", value |-> "quantityStr"],
       [target |-> "Place Buy Order CTA",
        locate |-> "Locating Place Buy Order CTA via generated locators",
        act |-> "Clicking Place Buy Order CTA",
        op |-> "click", value |-> "none"],
       [target |-> "Confirm CTA",
        locate |-> "Locating Confirm CTA via generated locators",
        act |-> "Clicking Confirm CTA to place order",
        op |-> "click", value |-> "none"] >>

ClearingStep == "Clearing Quantity field (if supported)"
SuccessStep == "Successfully initiated delivery buy order"

\* One operation on the driver, for one target of the flow
DriverAction(op, target, value) == [op |-> op, target |-> target, value |-> value]

\* const preferredOrder = ['id', 'accessibility id', 'xpath']
preferredOrder == <<"id", "accessibility id", "xpath">>

\* element.locators[key] is truthy: the map has the key with a non-empty selector
HasLocator(locators, key) ==
    \E j \in 1..Len(locators) :
        locators[j].strategy = key /\ locators[j].selector # ""

\* element.locators[key]
LocatorAt(locators, key) ==
    locators[CHOOSE j \in 1..Len(locators) : locators[j].strategy = key]

\* The first entry of the map, whatever its strategy
pickBestLocatorFirstEntry(element) == element.locators[1]

\* pickBestLocator: the first strategy of preferredOrder that the map holds
\* with a truthy selector, else the first entry of the map
pickBestLocator(element) ==
    IF \E k \in 1..Len(preferredOrder) : HasLocator(element.locators, preferredOrder[k])
    THEN LET first == CHOOSE k \in 1..Len(preferredOrder) :
                        /\ HasLocator(element.locators, preferredOrder[k])
                        /\ \A j \in 1..(k - 1) :
                            ~HasLocator(element.locators, preferredOrder[j])
         IN LocatorAt(element.locators, preferredOrder[first])
    ELSE element.locators[1]

\* pickBestLocator throws: no preferred strategy and no entry at all
pickBestLocatorThrows(element) ==
    /\ \A k \in 1..Len(preferredOrder) : ~HasLocator(element.locators, preferredOrder[k])
    /\ element.locators = <<>>

\* The locator maps generated for the element that elements.find returns
LocatorMaps ==
    { <<>>,
      <<Loc("xpath", "x1")>>,
      <<Loc("class name", "c1"), Loc("xpath", "x1"),
        Loc("accessibility id", "a1"), Loc("id", "i1")>>,
      <<Loc("xpath", "x1"), Loc("accessibility id", "a1")>>,
      <<Loc("id", ""), Loc("accessibility id", "a1")>>,
      <<Loc("class name", "c1"), Loc("-android uiautomator", "u1")>>,
      <<Loc("id", ""), Loc("class name", "c1")>> }

\* What elements.find(predicate) returns on the snapshot: no element, or an
\* element with its locator map
Matches ==
    { [found |-> FALSE, locators |-> <<>>] }
    \cup { [found |-> TRUE, locators |-> m] : m \in LocatorMaps }

\* What findElement resolves with: a handle with an element id, one without,
\* or nothing
Handles == {"withId", "noId", "undefined"}

NoSessionOrderError ==
    "No active driver session. Please create a session first using create_session."
UnsupportedPlatformError == "appium_place_stock_order currently supports only Android"

\* catch (err): the message lists the steps recorded so far and the cause
OrderFailure(steps, cause) ==
    [type |-> "error",
     message |-> <<"Failed to place stock order. Last completed steps: ">>
                 \o steps \o <<". Error: ", cause>>]

\* The platform is not checked
OrderPreflightAnyPlatform(d, platformName) ==
    IF ~d THEN [ok |-> FALSE, error |-> NoSessionOrderError]
    ELSE [ok |-> TRUE, error |-> "none"]

\* Lines 101-114: the session check, then the platform check
OrderPreflight(d, platformName) ==
    IF ~d THEN [ok |-> FALSE, error |-> NoSessionOrderError]
    ELSE IF platformName # "Android"
    THEN [ok |-> FALSE, error |-> UnsupportedPlatformError]
    ELSE [ok |-> TRUE, error |-> "none"]

\* The step is recorded and findElementByPredicate starts with getPageSource
StartLocate(o, n) ==
    [o EXCEPT !.pc = "awaitPageSource",
              !.phase = n,
              !.steps = Append(@, Phases[n].locate),
              !.actions = Append(@, DriverAction("getPageSource", Phases[n].target, "none"))]

\* The message of the catch block without the steps
OrderFailedWithoutSteps(o, cause) ==
    [o EXCEPT !.pc = "failed", !.outcome = OrderFailure(<<>>, cause)]

\* The call ends in the catch block
OrderFailed(o, cause) ==
    [o EXCEPT !.pc = "failed", !.outcome = OrderFailure(o.steps, cause)]

OrderInit ==
    /\ CheckLocatorsNotStarted
    /\ invocation = InvocationNotStarted
    /\ order \in { [OrderNotStarted EXCEPT !.driver = d, !.platformName = p, !.hasClear = h] :
                     d \in BOOLEAN, p \in {"Android", "iOS"}, h \in BOOLEAN }

\* Lines 101-136: the checks, then the first step
PlaceOrderExecute ==
    /\ order.pc = "idle"
    /\ UNCHANGED <<vars, invocation>>
    /\ order' =
        IF OrderPreflight(order.driver, order.platformName).ok
        THEN StartLocate(order, 1)
        ELSE [order EXCEPT
                !.pc = "failed",
                !.outcome = [type |-> "error",
                             message |-> <<OrderPreflight(order.driver,
                                                          order.platformName).error>>]]

\* await driver.getPageSource() resolves; automationName is read next
OrderPageSourceResolves ==
    /\ order.pc = "awaitPageSource"
    /\ UNCHANGED <<vars, invocation>>
    /\ \E m \in Matches :
        order' = [order EXCEPT
                    !.pc = "awaitAutomationName",
                    !.match = m,
                    !.actions = Append(@, DriverAction("automationName",
                                                       Phases[order.phase].target, "none"))]

OrderPageSourceRejects ==
    /\ order.pc = "awaitPageSource"
    /\ UNCHANGED <<vars, invocation>>
    /\ order' = OrderFailed(order, "getPageSource failed")

\* Lines 64-74: the snapshot is generated, the predicate finds an element,
\* pickBestLocator picks its locator and findElement is called with it
OrderSnapshotTaken ==
    /\ order.pc = "awaitAutomationName"
    /\ UNCHANGED <<vars, invocation>>
    /\ order.match.found
    /\ ~pickBestLocatorThrows(order.match)
    /\ order' = [order EXCEPT
                    !.pc = "awaitFindElement",
                    !.picked = pickBestLocator(order.match),
                    !.actions = Append(@, DriverAction("findElement",
                                                       Phases[order.phase].target, "none"))]

\* Lines 58-73 throw: no automationName, no element satisfies the predicate,
\* or the element has no locator
OrderSnapshotFails ==
    /\ order.pc = "awaitAutomationName"
    /\ UNCHANGED <<vars, invocation>>
    /\ \/ order' = OrderFailed(order, "Cannot read properties of undefined")
       \/ /\ ~order.match.found
          /\ order' = OrderFailed(order, "Unable to locate target using generated locators")
       \/ /\ order.match.found
          /\ pickBestLocatorThrows(order.match)
          /\ order' = OrderFailed(order, "No usable locators generated for target element")

\* The action of the quantity field's clearing step: driver.clear when the
\* driver has it, else a setValue of the empty string
ClearAction(hasClear) ==
    IF hasClear THEN DriverAction("clear", "Quantity field", "none")
    ELSE DriverAction("setValue", "Quantity field", "")

\* await driver.findElement resolves: getElementId reads the handle, the next
\* step is recorded and its driver action is issued
OrderFindElementResolves ==
    /\ order.pc = "awaitFindElement"
    /\ UNCHANGED <<vars, invocation>>
    /\ \E handle \in Handles :
        order' =
            IF handle = "undefined" THEN OrderFailed(order, "Element handle is undefined")
            ELSE IF handle = "noId"
            THEN OrderFailed(order, "Unable to determine element id from element handle")
            ELSE IF Phases[order.phase].target = "Quantity field"
            THEN [order EXCEPT
                    !.pc = "awaitClear",
                    !.steps = Append(@, ClearingStep),
                    !.actions = Append(@, ClearAction(order.hasClear))]
            ELSE [order EXCEPT
                    !.pc = "awaitAction",
                    !.steps = Append(@, Phases[order.phase].act),
                    !.actions = Append(@, DriverAction(Phases[order.phase].op,
                                                       Phases[order.phase].target,
                                                       Phases[order.phase].value))]

OrderFindElementRejects ==
    /\ order.pc = "awaitFindElement"
    /\ UNCHANGED <<vars, invocation>>
    /\ order' = OrderFailed(order, "no such element")

\* The error of the clearing step is thrown on
ClearFailureRethrown == TRUE

\* catch (clearErr) { log.warn(...) }: the error of the clearing step ends there
ClearFailureIsFatal == FALSE

\* Lines 243-245: the quantity step is recorded and its setValue issued
AfterClear(o) ==
    [o EXCEPT !.pc = "awaitAction",
              !.steps = Append(@, Phases[o.phase].act),
              !.actions = Append(@, DriverAction(Phases[o.phase].op,
                                                 Phases[o.phase].target,
                                                 Phases[o.phase].value))]

ClearResolves ==
    /\ order.pc = "awaitClear"
    /\ UNCHANGED <<vars, invocation>>
    /\ order' = AfterClear(order)

ClearRejects ==
    /\ order.pc = "awaitClear"
    /\ UNCHANGED <<vars, invocation>>
    /\ order' = IF ClearFailureIsFatal
                THEN OrderFailed(order, "clear failed")
                ELSE AfterClear([order EXCEPT !.clearFailed = TRUE])

\* The awaited setValue or click resolves: the next target is located, or
\* after the last one the steps are returned
OrderActionResolves ==
    /\ order.pc = "awaitAction"
    /\ UNCHANGED <<vars, invocation>>
    /\ order' =
        IF order.phase < Len(Phases)
        THEN StartLocate(order, order.phase + 1)
        ELSE [order EXCEPT
                !.pc = "done",
                !.steps = Append(@, SuccessStep),
                !.outcome = [type |-> "result",
                             text |-> Append(order.steps, SuccessStep)]]

OrderActionRejects ==
    /\ order.pc = "awaitAction"
    /\ UNCHANGED <<vars, invocation>>
    /\ order' = OrderFailed(order, "driver action failed")

OrderNext ==
    \/ PlaceOrderExecute
    \/ OrderPageSourceResolves
    \/ OrderPageSourceRejects
    \/ OrderSnapshotTaken
    \/ OrderSnapshotFails
    \/ OrderFindElementResolves
    \/ OrderFindElementRejects
    \/ ClearResolves
    \/ ClearRejects
    \/ OrderActionResolves
    \/ OrderActionRejects

OrderSpec == OrderInit /\ [][OrderNext]_<<vars, order, invocation>>

----------------------------------------------------------------------------
\* Properties of appium_place_stock_order

IsPrefix(s, t) == Len(s) <= Len(t) /\ s = SubSeq(t, 1, Len(s))

\* The seven driver actions in the order in which the flow is described
ClaimedOrder ==
    << DriverAction("setValue", "search field", "stockName"),
       DriverAction("click", "first search result", "none"),
       DriverAction("click", "BUY button", "none"),
       DriverAction("click", "Delivery option", "none"),
       DriverAction("setValue", "Quantity field", "quantityStr"),
       DriverAction("click", "Place Buy Order CTA", "none"),
       DriverAction("click", "Confirm CTA", "none") >>

ConfirmClick == DriverAction("click", "Confirm CTA", "none")
QuantitySetValue == DriverAction("setValue", "Quantity field", "quantityStr")

ChangesDevice(a) == a.op \in {"setValue", "click", "clear"}

\* The state-changing driver actions issued so far, in order
DeviceActions == SelectSeq(order.actions, ChangesDevice)

\* The operations of locating one target
LocateOf(a) ==
    << DriverAction("getPageSource", a.target, "none"),
       DriverAction("automationName", a.target, "none"),
       DriverAction("findElement", a.target, "none") >>

\* Every operation of a complete flow: each action after the location of its
\* target, the quantity setValue after the clearing action
WholeFlow ==
    Flatten([n \in 1..Len(ClaimedOrder) |->
        LocateOf(ClaimedOrder[n])
        \o (IF ClaimedOrder[n] = QuantitySetValue
            THEN <<ClearAction(order.hasClear)>> ELSE <<>>)
        \o <<ClaimedOrder[n]>>])

\* The call failed in the catch block
FailedInFlow ==
    /\ order.pc = "failed"
    /\ OrderPreflight(order.driver, order.platformName).ok

\* C26 as stated: the state-changing driver actions are the seven of the list
\* in that order, and once any step fails, the clearing step included, no
\* further driver action is issued and the call fails.
C26_SevenActionsAnyFailureFatal ==
    /\ IsPrefix(DeviceActions, ClaimedOrder)
    /\ order.clearFailed =>
        /\ order.pc = "failed"
        /\ order.actions[Len(order.actions)] = ClearAction(order.hasClear)

\* What holds in every state of a call
OrderOfActions ==
    /\ IsPrefix(order.actions, WholeFlow)
    /\ ConfirmClick \in Range(order.actions) =>
        /\ Len(order.actions) = Len(WholeFlow)
        /\ Len(order.steps) >= 2 * Len(ClaimedOrder) + 1
    /\ FailedInFlow =>
        /\ order.outcome.type = "error"
        /\ Len(order.outcome.message) = Len(order.steps) + 3
        /\ SubSeq(order.outcome.message, 2, Len(order.steps) + 1) = order.steps
    /\ order.pc = "done" =>
        /\ order.actions = WholeFlow
        /\ order.outcome.text = order.steps

\* A step that fails issues no driver action and records no step, and after
\* it nothing is issued; the clearing step alone may fail without that
FailureStopsFlow ==
    /\ order'.pc = "failed" =>
        /\ order'.actions = order.actions
        /\ order'.steps = order.steps
    /\ order.pc = "failed" => order' = order
    /\ (order'.clearFailed /\ ~order.clearFailed) =>
        /\ order.pc = "awaitClear"
        /\ order'.actions = Append(order.actions, QuantitySetValue)

\* C26 amended: the driver actions occur in the fixed order search-field
\* setValue, first-result click, BUY click, Delivery click, clearing of the
\* quantity field (clear, or setValue of an empty string), quantity setValue,
\* Place Buy Order click, Confirm click, each after the location of its target;
\* the Confirm click is issued only when all that precedes it was issued; once
\* a step other than the clearing fails no further driver action is issued and
\* the call fails with a message listing the steps recorded so far.
C26_FixedOrderClearExempt ==
    /\ []OrderOfActions
    /\ [][FailureStopsFlow]_order

\* The order was confirmed although the clearing of the quantity field failed
C26_Witness ==
    /\ order.pc = "done"
    /\ order.clearFailed
    /\ DeviceActions[Len(DeviceActions)] = ConfirmClick

\* C27: without an active session, or on a platform other than Android, the
\* call fails at once with the error of the check: no driver operation is
\* issued and no step is recorded.
C27_NoActionWithoutSessionOrAndroid ==
    (order.pc # "idle" /\ (~order.driver \/ order.platformName # "Android")) =>
        /\ order.pc = "failed"
        /\ order.actions = <<>>
        /\ order.steps = <<>>
        /\ order.outcome.type = "error"
        /\ order.outcome.message \in {<<NoSessionOrderError>>, <<UnsupportedPlatformError>>}
        /\ order.outcome.message = <<NoSessionOrderError>> <=> ~order.driver

\* A call with a session on iOS has failed
C27_Witness ==
    /\ order.pc = "failed"
    /\ order.driver
    /\ order.platformName = "iOS"
    /\ order.outcome.message = <<UnsupportedPlatformError>>

\* C28: whether the clearing of the quantity field (clear, or the fallback
\* setValue of an empty string) resolves or throws, the next step issues the
\* quantity setValue and the flow goes on; a failed clearing never ends the call.
C28_ClearFailureNotFatal ==
    /\ [][order.pc = "awaitClear" =>
            /\ order'.pc = "awaitAction"
            /\ order'.actions = Append(order.actions, QuantitySetValue)
            /\ order'.steps = Append(order.steps, "Setting quantity to quantityStr")]_order
    /\ [](order.pc = "awaitClear" =>
            order.actions[Len(order.actions)] = ClearAction(order.hasClear))
    /\ [](order.clearFailed =>
            \E p \in 1..(Len(order.actions) - 1) :
                /\ order.actions[p] = ClearAction(order.hasClear)
                /\ order.actions[p + 1] = QuantitySetValue)

\* After a failed fallback clearing the Place Buy Order button was clicked
C28_Witness ==
    /\ order.clearFailed
    /\ ~order.hasClear
    /\ DriverAction("click", "Place Buy Order CTA", "none") \in Range(order.actions)

\* The selector the map holds for the strategy, non-empty
Selector(locators, strategy) ==
    { l \in Range(locators) : l.strategy = strategy /\ l.selector # "" }

\* The locators the description allows for a map with entries
PreferredLocators(locators) ==
    IF Selector(locators, "id") # {} THEN Selector(locators, "id")
    ELSE IF Selector(locators, "accessibility id") # {}
    THEN Selector(locators, "accessibility id")
    ELSE IF Selector(locators, "xpath") # {} THEN Selector(locators, "xpath")
    ELSE {locators[1]}

NoLocatorsFailure == OrderFailure(order.steps, "No usable locators generated for target element")

\* C29: the locator findElement is called with is the element's id locator if
\* present and non-empty, otherwise accessibility id, otherwise xpath,
\* otherwise the first entry of the locator map, and it is an entry of that
\* map; pickBestLocator fails exactly when the map has no entries.
C29_PreferredLocatorPicked ==
    /\ order.match.found =>
        (pickBestLocatorThrows(order.match) <=> order.match.locators = <<>>)
    /\ order.pc = "awaitFindElement" =>
        /\ order.match.locators # <<>>
        /\ order.picked \in PreferredLocators(order.match.locators)
        /\ order.picked \in Range(order.match.locators)
    /\ (order.pc = "failed" /\ order.outcome = NoLocatorsFailure) =>
        (order.match.found /\ order.match.locators = <<>>)

\* A map whose id selector is empty: the accessibility id locator is picked
C29_Witness ==
    /\ order.pc = "awaitFindElement"
    /\ order.match.locators[1] = Loc("id", "")
    /\ order.picked.strategy = "accessibility id"

----------------------------------------------------------------------------
\* The logging wrapper that registerTools puts around every tool's execute
\* (index.ts 43-108): one invocation of one wrapped tool.

UpperCaseLetters ==
    <<"A", "B", "C", "D", "E", "F", "G", "H", "I", "J", "K", "L", "M", "N", "O", "P", "Q", "R", "S", "T", "U", "V", "W", "X", "Y", "Z">>
LowerCaseLetters ==
    <<"a", "b", "c", "d", "e", "f", "g", "h", "i", "j", "k", "l", "m", "n", "o", "p", "q", "r", "s", "t", "u", "v", "w", "x", "y", "z">>

\* key.toLowerCase(), on keys written as sequences of characters
keyToLowerCase(key) ==
    [n \in 1..Len(key) |->
        IF \E u \in 1..Len(UpperCaseLetters) : UpperCaseLetters[u] = key[n]
        THEN LowerCaseLetters[CHOOSE u \in 1..Len(UpperCaseLetters) :
                                UpperCaseLetters[u] = key[n]]
        ELSE key[n]]

\* The list without its lower-case spelling of apiKey
SENSITIVE_KEYS_WithoutApikey ==
    << <<"p", "a", "s", "s", "w", "o", "r", "d">>,
       <<"t", "o", "k", "e", "n">>,
       <<"a", "c", "c", "e", "s", "s", "T", "o", "k", "e", "n">>,
       <<"a", "u", "t", "h", "o", "r", "i", "z", "a", "t", "i", "o", "n">>,
       <<"a", "p", "i", "K", "e", "y">>,
       <<"s", "e", "c", "r", "e", "t">>,
       <<"c", "l", "i", "e", "n", "t", "S", "e", "c", "r", "e", "t">> >>

\* const SENSITIVE_KEYS = [...]
SENSITIVE_KEYS ==
    << <<"p", "a", "s", "s", "w", "o", "r", "d">>,
       <<"t", "o", "k", "e", "n">>,
       <<"a", "c", "c", "e", "s", "s", "T", "o", "k", "e", "n">>,
       <<"a", "u", "t", "h", "o", "r", "i", "z", "a", "t", "i", "o", "n">>,
       <<"a", "p", "i", "K", "e", "y">>,
       <<"a", "p", "i", "k", "e", "y">>,
       <<"s", "e", "c", "r", "e", "t">>,
       <<"c", "l", "i", "e", "n", "t", "S", "e", "c", "r", "e", "t">> >>

\* key && SENSITIVE_KEYS.some(k => key.toLowerCase().includes(k))
IsSensitiveKey(key) ==
    /\ key # <<>>
    /\ \E k \in 1..Len(SENSITIVE_KEYS) : includes(keyToLowerCase(key), SENSITIVE_KEYS[k])

\* JSON values: strings (short, or longer than 2000 characters), BigInt
\* values, which JSON.stringify cannot serialise, objects and arrays.  An
\* array is walked as an object whose keys are its indices.
JStr(v) == [t |-> "string", v |-> v, props |-> <<>>]
JLong == [t |-> "string", v |-> "long", props |-> <<>>]
JBigInt == [t |-> "bigint", v |-> "n", props |-> <<>>]
JObj(props) == [t |-> "object", v |-> "none", props |-> props]
JArr(props) == [t |-> "array", v |-> "none", props |-> props]
Prop(key, value) == [key |-> key, value |-> value]

\* The replacer function given to JSON.stringify (lines 65-84)
replacer(key, value) ==
    IF IsSensitiveKey(key) THEN JStr("[REDACTED]")
    ELSE IF value.t = "string" /\ value.v = "long" THEN JStr("[string:N]")
    ELSE value

\* JSON.stringify with the replacer, then JSON.parse: each property is
\* replaced and what the replacer returned is walked in turn
RECURSIVE Stringified(_)
Stringified(value) ==
    IF value.props = <<>> THEN value
    ELSE [value EXCEPT !.props =
            [n \in 1..Len(value.props) |->
                Prop(value.props[n].key,
                     Stringified(replacer(value.props[n].key, value.props[n].value)))]]

\* JSON.stringify throws: a BigInt is reached that the replacer left in place
RECURSIVE StringifyThrows(_)
StringifyThrows(value) ==
    \/ value.t = "bigint"
    \/ \E n \in 1..Len(value.props) :
        StringifyThrows(replacer(value.props[n].key, value.props[n].value))

\* redactArgs (lines 62-89); the root is given to the replacer with the key ""
redactArgs(obj) ==
    IF StringifyThrows(replacer(<<>>, obj)) THEN JStr("[Unserializable args]")
    ELSE Stringified(replacer(<<>>, obj))

\* The keys of the tool arguments
ArgKeys ==
    { <<"p", "a", "s", "s", "w", "o", "r", "d">>,
      <<"P", "a", "s", "s", "w", "o", "r", "d">>,
      <<"u", "s", "e", "r", "P", "a", "s", "s", "w", "o", "r", "d">>,
      <<"T", "O", "K", "E", "N">>,
      <<"a", "c", "c", "e", "s", "s", "T", "o", "k", "e", "n">>,
      <<"A", "u", "t", "h", "o", "r", "i", "z", "a", "t", "i", "o", "n">>,
      <<"a", "p", "i", "K", "e", "y">>,
      <<"A", "P", "I", "K", "E", "Y">>,
      <<"c", "l", "i", "e", "n", "t", "S", "e", "c", "r", "e", "t">>,
      <<"s", "e", "c", "r", "e", "t">>,
      <<"n", "a", "m", "e">>,
      <<"p", "a", "s", "s">>,
      <<"s", "t", "o", "c", "k", "N", "a", "m", "e">>,
      <<"k", "e", "y">> }

NestedKeys == { <<"p", "a", "s", "s", "w", "o", "r", "d">>, <<"a", "p", "i", "K", "e", "y">>, <<"n", "a", "m", "e">> }

\* The values of a property: a string, a long string, a BigInt, an object
\* with one property, or an array holding such an object
ArgValues ==
    { JStr("v1"), JLong, JBigInt }
    \cup { JObj(<<Prop(k, JStr("v2"))>>) : k \in NestedKeys }
    \cup { JArr(<<Prop(<<"0">>, JObj(<<Prop(k, JStr("v2"))>>))>>) : k \in NestedKeys }

\* The argument objects: one property, or a property name beside one, with a
\* string or with a BigInt
ArgObjects ==
    { JObj(<<Prop(k, v)>>) : k \in ArgKeys, v \in ArgValues }
    \cup { JObj(<<Prop(<<"n", "a", "m", "e">>, JStr("v3")), Prop(k, JStr("v1"))>>) : k \in ArgKeys }
    \cup { JObj(<<Prop(k, JStr("v1")), Prop(<<"n", "a", "m", "e">>, JBigInt)>>) : k \in ArgKeys }

\* toolDef?.name ?? 'unknown_tool'
ToolNames == {"check_locators_from_file", "appium_place_stock_order", "unknown_tool"}

\* What the tool's own execute throws: an Error with a stack, an object with
\* only a message, or a bare string
ToolErrors ==
    { [stack |-> "stack1", message |-> "m1", text |-> "Error: m1"],
      [stack |-> "", message |-> "m2", text |-> "[object Object]"],
      [stack |-> "", message |-> "", text |-> "thrown string"] }

ToolResults == {"r1", "r2"}

LogEntry(level, tag, tool, payload, msg) ==
    [level |-> level, tag |-> tag, tool |-> tool, payload |-> payload, msg |-> msg]

\* log.info(`[TOOL START] ${toolName}`, redactArgs(args))
ToolStart(tool, args) == LogEntry("info", "[TOOL START]", tool, redactArgs(args), "")

\* log.info(`[TOOL END] ${toolName} (${duration}ms)`)
ToolEnd(tool) == LogEntry("info", "[TOOL END]", tool, JStr("none"), "")

\* err?.stack || err?.message || String(err)
ErrorText(err) ==
    IF err.stack # "" THEN err.stack ELSE IF err.message # "" THEN err.message ELSE err.text

\* log.error(`[TOOL ERROR] ${toolName} (${duration}ms): ${msg}`)
ToolError(tool, err) == LogEntry("error", "[TOOL ERROR]", tool, JStr("none"), ErrorText(err))

\* The end of the tool is logged as well when it throws
LogOnThrowWithEnd(tool, err) == <<ToolEnd(tool), ToolError(tool, err)>>

\* What the catch block logs (lines 100-104)
LogOnThrow(tool, err) == <<ToolError(tool, err)>>

WrapperInit ==
    /\ CheckLocatorsNotStarted
    /\ order = OrderNotStarted
    /\ invocation \in { [InvocationNotStarted EXCEPT !.toolName = n, !.args = a] :
                          n \in ToolNames, a \in ArgObjects }

\* Lines 92-96: the start is logged with the redacted arguments and the tool's
\* execute is called with the arguments
Invoke ==
    /\ invocation.pc = "idle"
    /\ UNCHANGED <<vars, order>>
    /\ invocation' = [invocation EXCEPT
                        !.pc = "executing",
                        !.log = Append(@, ToolStart(invocation.toolName, invocation.args)),
                        !.passed = Append(@, invocation.args)]

\* Lines 96-99: execute returns; the end is logged and the result returned
ExecuteReturns ==
    /\ invocation.pc = "executing"
    /\ UNCHANGED <<vars, order>>
    /\ \E result \in ToolResults :
        invocation' = [invocation EXCEPT
                        !.pc = "returned",
                        !.log = Append(@, ToolEnd(invocation.toolName)),
                        !.executed = [type |-> "result", value |-> result],
                        !.outcome = [type |-> "result", value |-> result]]

\* Lines 100-105: execute throws; the error is logged and thrown again
ExecuteThrows ==
    /\ invocation.pc = "executing"
    /\ UNCHANGED <<vars, order>>
    /\ \E err \in ToolErrors :
        invocation' = [invocation EXCEPT
                        !.pc = "threw",
                        !.log = @ \o LogOnThrow(invocation.toolName, err),
                        !.executed = [type |-> "error", value |-> err],
                        !.outcome = [type |-> "error", value |-> err]]

WrapperNext ==
    \/ Invoke
    \/ ExecuteReturns
    \/ ExecuteThrows

WrapperSpec == WrapperInit /\ [][WrapperNext]_<<vars, order, invocation>>

----------------------------------------------------------------------------
\* Properties of the logging wrapper

TagsLogged == [n \in 1..Len(invocation.log) |-> invocation.log[n].tag]

\* C24: an invocation logs one [TOOL START] before the tool's execute runs,
\* and when execute has settled exactly one more entry, [TOOL END] if it
\* returned and [TOOL ERROR] if it threw; the wrapper returns the result of
\* execute, or throws the error execute threw.
C24_OneStartThenEndOrError ==
    /\ \A n \in 1..Len(invocation.log) : invocation.log[n].tool = invocation.toolName
    /\ invocation.passed # <<>> => TagsLogged[1] = "[TOOL START]"
    /\ invocation.pc = "idle" =>
        /\ TagsLogged = <<>>
        /\ invocation.passed = <<>>
    /\ invocation.pc = "executing" =>
        /\ TagsLogged = <<"[TOOL START]">>
        /\ Len(invocation.passed) = 1
        /\ invocation.outcome.type = "pending"
    /\ invocation.pc = "returned" =>
        /\ TagsLogged = <<"[TOOL START]", "[TOOL END]">>
        /\ invocation.executed.type = "result"
        /\ invocation.outcome = invocation.executed
    /\ invocation.pc = "threw" =>
        /\ TagsLogged = <<"[TOOL START]", "[TOOL ERROR]">>
        /\ invocation.executed.type = "error"
        /\ invocation.outcome = invocation.executed

\* The tool threw an error without a stack: it is logged by its message
C24_Witness ==
    /\ invocation.pc = "threw"
    /\ invocation.executed.value.stack = ""
    /\ invocation.log[Len(invocation.log)].msg = "m2"

\* The sensitive names as the description lists them
ListedSensitiveNames ==
    { <<"p", "a", "s", "s", "w", "o", "r", "d">>,
      <<"t", "o", "k", "e", "n">>,
      <<"a", "c", "c", "e", "s", "s", "T", "o", "k", "e", "n">>,
      <<"a", "u", "t", "h", "o", "r", "i", "z", "a", "t", "i", "o", "n">>,
      <<"a", "p", "i", "K", "e", "y">>,
      <<"a", "p", "i", "k", "e", "y">>,
      <<"s", "e", "c", "r", "e", "t">>,
      <<"c", "l", "i", "e", "n", "t", "S", "e", "c", "r", "e", "t">> }

\* The key equals a listed name in any letter case, or contains one
NamesSensitive(key) ==
    \E name \in ListedSensitiveNames :
        includes(keyToLowerCase(key), keyToLowerCase(name))

\* The logged value shows [REDACTED] for every property of the original with
\* a sensitive key, at any depth below properties that are not sensitive
RECURSIVE RedactedIn(_, _)
RedactedIn(original, logged) ==
    /\ Len(logged.props) = Len(original.props)
    /\ \A n \in 1..Len(original.props) :
        /\ logged.props[n].key = original.props[n].key
        /\ IF NamesSensitive(original.props[n].key)
           THEN logged.props[n].value = JStr("[REDACTED]")
           ELSE RedactedIn(original.props[n].value, logged.props[n].value)

\* The strings and numbers a value holds, at any depth
RECURSIVE LeavesOf(_)
LeavesOf(value) ==
    IF value.props = <<>> THEN {value.v}
    ELSE UNION { LeavesOf(value.props[n].value) : n \in 1..Len(value.props) }

\* Those held by a property with a sensitive key, at any depth
RECURSIVE SecretsOf(_)
SecretsOf(value) ==
    UNION { IF NamesSensitive(value.props[n].key)
            THEN LeavesOf(value.props[n].value)
            ELSE SecretsOf(value.props[n].value) : n \in 1..Len(value.props) }

\* C25: in the payload of the [TOOL START] entry every property whose key, in
\* any letter case, equals or contains a listed sensitive name shows
\* '[REDACTED]', at any depth (or the payload is '[Unserializable args]' and
\* shows no property at all); no value held under such a key appears in the
\* payload; and the tool's execute receives the arguments unchanged.
C25_SensitiveValuesRedacted ==
    invocation.log # <<>> =>
        /\ invocation.log[1].tag = "[TOOL START]"
        /\ \/ invocation.log[1].payload = JStr("[Unserializable args]")
           \/ RedactedIn(invocation.args, invocation.log[1].payload)
        /\ SecretsOf(invocation.args) \cap LeavesOf(invocation.log[1].payload) = {}
        /\ invocation.passed = <<invocation.args>>

\* An apiKey inside an object inside an array is logged redacted, next to
\* nothing else
C25_Witness ==
    /\ invocation.pc = "executing"
    /\ invocation.args.props[1].value.t = "array"
    /\ ~NamesSensitive(invocation.args.props[1].key)
    /\ invocation.args.props[1].value.props[1].value.props[1].key = <<"a", "p", "i", "K", "e", "y">>
    /\ invocation.log[1].payload.props[1].value.props[1].value.props[1].value
         = JStr("[REDACTED]")
    /\ "v2" \in SecretsOf(invocation.args)

====
